---- MODULE Spec2Model ----
(***************************************************************************)
(* Model of script/run_vunit.py: the VUnit run script of PD-PHY.           *)
(*                                                                         *)
(* The script is a straight-line module body of five calls into VUnit:     *)
(*   vu = VUnit.from_argv()                                                *)
(*   lib = vu.add_library("lib")                                           *)
(*   lib.add_source_files("../src/design/*.vhd")                           *)
(*   lib.add_source_files("../src/test/*.vhd")                             *)
(*   vu.main()                                                             *)
(* The state is the process environment the calls read (working directory, *)
(* file system, sys.argv), the objects the calls build (the VUnit context, *)
(* its libraries, the script's handle `lib`), the position of the module   *)
(* body, and how the process ended.                                        *)
(***************************************************************************)
EXTENDS Naturals, Sequences, FiniteSets

VARIABLES cwd, fs, sys_argv, pc, vu, libraries, lib, trace, outcome,
          exitStatus, report

vars == <<cwd, fs, sys_argv, pc, vu, libraries, lib, trace, outcome,
          exitStatus, report>>

env == <<cwd, fs, sys_argv>>

(***************************************************************************)
(* Bounds of the model.                                                    *)
(***************************************************************************)
\* number of distinct .vhd file names a source directory may hold
MaxStem == 2
\* number of command-line arguments after the script name
MaxArgs == 1

(***************************************************************************)
(* The process environment.                                                *)
(***************************************************************************)
\* directory of run_vunit.py: <repo>/script
ScriptDir == <<"repo", "script">>

\* working directories the script may be started from
WorkDirs == {ScriptDir, <<"repo">>, <<"work", "build">>}

\* files that may exist: .vhd files in src/design and src/test of the
\* repository, one .vhd file in each of the same directories of another
\* tree, and files the patterns do not match
FileUniverse ==
    {[dir |-> <<"repo", "src", s>>, stem |-> n, ext |-> "vhd"] :
        s \in {"design", "test"}, n \in 1..MaxStem}
    \cup {[dir |-> <<"work", "src", s>>, stem |-> 1, ext |-> "vhd"] :
        s \in {"design", "test"}}
    \cup {[dir |-> <<"repo", "src", "design">>, stem |-> 1, ext |-> "txt"],
          [dir |-> <<"work", "src", "test">>, stem |-> 1, ext |-> "vhdl"]}

\* command-line tokens: help, verbose, exit-0 (all known to VUnit's parser)
\* and one option the parser does not know
Tokens == {"-h", "-v", "--exit-0", "--bogus"}

KnownTokens == {"-h", "-v", "--exit-0"}

RECURSIVE SeqsUpTo(_, _)
SeqsUpTo(S, n) ==
    IF n = 0 THEN {<<>>}
    ELSE LET shorter == SeqsUpTo(S, n - 1)
         IN  shorter \cup {Append(s, x) : s \in shorter, x \in S}

Range(s) == {s[i] : i \in 1..Len(s)}

(***************************************************************************)
(* The constants of the script.                                            *)
(***************************************************************************)
\* the steps of the module body, in source order
Steps == <<"from_argv", "add_library", "add_design", "add_test", "main">>

\* vu.add_library("lib")
LibraryName == "lib"

\* "../src/design/*.vhd": directory components, then the wildcard's suffix
DesignPattern == [dirs |-> <<"..", "src", "design">>, ext |-> "vhd"]

\* "../src/test/*.vhd"
TestPattern == [dirs |-> <<"..", "src", "test">>, ext |-> "vhd"]

\* neither add_source_files call passes allow_empty, so VUnit's default holds
AllowEmpty_always == TRUE
AllowEmpty == FALSE

(***************************************************************************)
(* Path resolution and globbing, as the operating system and glob do it:   *)
(* a relative pattern is resolved against the working directory.           *)
(***************************************************************************)
RECURSIVE Resolve(_, _)
Resolve(dir, comps) ==
    IF comps = <<>> THEN dir
    ELSE LET c == Head(comps)
             d == IF c = ".."
                  THEN (IF dir = <<>> THEN <<>>
                        ELSE SubSeq(dir, 1, Len(dir) - 1))
                  ELSE Append(dir, c)
         IN  Resolve(d, Tail(comps))

glob(wd, files, pattern) ==
    {f \in files : /\ f.dir = Resolve(wd, pattern.dirs)
                   /\ f.ext = pattern.ext}

(***************************************************************************)
(* The module body: what follows a step, what an exception does, and the   *)
(* status the interpreter ends the process with.                           *)
(***************************************************************************)
NextStep_main_early(step) ==
    CASE step = "from_argv"   -> "add_library"
      [] step = "add_library" -> "add_design"
      [] step = "add_design"  -> "main"
      [] step = "main"        -> "add_test"
      [] step = "add_test"    -> "done"

NextStep(step) ==
    CASE step = "from_argv"   -> "add_library"
      [] step = "add_library" -> "add_design"
      [] step = "add_design"  -> "add_test"
      [] step = "add_test"    -> "main"
      [] step = "main"        -> "done"

\* there is no try/except around any statement: an exception ends the body
AfterRaise_skip_design(step) ==
    IF step = "add_design" THEN "add_test" ELSE "done"
AfterRaise(step) == "done"

\* SystemExit(code) ends the process with code, any other uncaught
\* exception with status 1; the script installs no handler of its own
ProcessStatus_masked(o) == 0
ProcessStatus_raise_zero(o) == IF o.kind = "exit" THEN o.code ELSE 0
ProcessStatus(o) == IF o.kind = "exit" THEN o.code ELSE 1

\* from_argv() is called without an argv: the parser reads sys.argv itself
ScriptArgv_extra(argv) == Append(argv, "-v")
ScriptArgv(argv) == argv

\* no call has ended the process yet
NoOutcome == [step |-> "none", kind |-> "none", code |-> 0]

\* value of exitStatus while the process has not exited
Running == 99

(***************************************************************************)
(* The framework calls, as far as the script depends on them.              *)
(***************************************************************************)
\* argparse: -h prints the help and exits 0, an unknown option exits 2
ParseExit(args) ==
    IF "-h" \in Range(args) THEN 0
    ELSE IF Range(args) \subseteq KnownTokens THEN Running
    ELSE 2

add_library_two(libs, name) ==
    [n \in DOMAIN libs \cup {name, "test_lib"} |->
        IF n \in DOMAIN libs THEN libs[n] ELSE {}]
add_library(libs, name) ==
    [n \in DOMAIN libs \cup {name} |->
        IF n \in DOMAIN libs THEN libs[n] ELSE {}]

add_source_files_replace(libs, handle, files) ==
    [libs EXCEPT ![handle] = files]
add_source_files(libs, handle, files) ==
    [libs EXCEPT ![handle] = @ \cup files]

\* vu.main() ends in sys.exit: 0 when all tests passed, and also on test
\* failures when --exit-0 was given; 1 otherwise
MainExitCode(rep, args) ==
    IF rep = "all_passed" THEN 0
    ELSE IF rep = "failed" /\ "--exit-0" \in Range(args) THEN 0
    ELSE 1

(***************************************************************************)
(* Initial state: the process has started, no statement has run.           *)
(***************************************************************************)
Init ==
    /\ cwd \in WorkDirs
    /\ fs \in SUBSET FileUniverse
    /\ sys_argv \in {<<"run_vunit.py">> \o a : a \in SeqsUpTo(Tokens, MaxArgs)}
    /\ pc = "from_argv"
    /\ vu = [created |-> FALSE, argv |-> <<>>]
    /\ libraries = [n \in {} |-> {}]
    /\ lib = "none"
    /\ trace = <<>>
    /\ outcome = NoOutcome
    /\ exitStatus = Running
    /\ report = "none"

(***************************************************************************)
(* How a call ends.                                                        *)
(***************************************************************************)
Returns(step) ==
    /\ pc' = NextStep(step)
    /\ UNCHANGED <<outcome, exitStatus>>

Ends(step, kind, code) ==
    /\ outcome' = [step |-> step, kind |-> kind, code |-> code]
    /\ pc' = AfterRaise(step)
    /\ exitStatus' = IF pc' = "done" THEN ProcessStatus(outcome')
                     ELSE exitStatus

(***************************************************************************)
(* Line 8: vu = VUnit.from_argv()                                          *)
(***************************************************************************)
FromArgv ==
    /\ pc = "from_argv"
    /\ trace' = Append(trace, "from_argv")
    /\ LET args == Tail(ScriptArgv(sys_argv))
       IN  \/ /\ ParseExit(args) # Running
              /\ vu' = [created |-> FALSE, argv |-> args]
              /\ Ends("from_argv", "exit", ParseExit(args))
           \/ /\ ParseExit(args) = Running
              /\ vu' = [created |-> TRUE, argv |-> args]
              /\ Returns("from_argv")
           \/ /\ ParseExit(args) = Running
              /\ vu' = [created |-> FALSE, argv |-> args]
              /\ Ends("from_argv", "raise", 1)
    /\ UNCHANGED <<env, libraries, lib, report>>

(***************************************************************************)
(* Line 10: lib = vu.add_library("lib")                                    *)
(***************************************************************************)
AddLibrary ==
    /\ pc = "add_library"
    /\ trace' = Append(trace, "add_library")
    /\ \/ /\ libraries' = add_library(libraries, LibraryName)
          /\ lib' = LibraryName
          /\ Returns("add_library")
       \/ /\ UNCHANGED <<libraries, lib>>
          /\ Ends("add_library", "raise", 1)
    /\ UNCHANGED <<env, vu, report>>

(***************************************************************************)
(* Lines 13 and 14: lib.add_source_files(pattern)                          *)
(***************************************************************************)
AddSourceFiles(step, pattern) ==
    /\ trace' = Append(trace, step)
    /\ LET matched == glob(cwd, fs, pattern)
       IN  \/ /\ matched # {} \/ AllowEmpty
              /\ libraries' = add_source_files(libraries, lib, matched)
              /\ Returns(step)
           \/ /\ UNCHANGED libraries
              /\ Ends(step, "raise", 1)
    /\ UNCHANGED <<env, vu, lib, report>>

AddDesignSources ==
    /\ pc = "add_design"
    /\ AddSourceFiles("add_design", DesignPattern)

AddTestSources ==
    /\ pc = "add_test"
    /\ AddSourceFiles("add_test", TestPattern)

(***************************************************************************)
(* Line 16: vu.main()                                                      *)
(***************************************************************************)
Main ==
    /\ pc = "main"
    /\ trace' = Append(trace, "main")
    /\ \/ \E rep \in {"all_passed", "failed", "error"} :
              /\ report' = rep
              /\ Ends("main", "exit", MainExitCode(rep, vu.argv))
       \/ /\ UNCHANGED report
          /\ Ends("main", "raise", 1)
    /\ UNCHANGED <<env, vu, libraries, lib>>

Next ==
    \/ FromArgv
    \/ AddLibrary
    \/ AddDesignSources
    \/ AddTestSources
    \/ Main

Spec == Init /\ [][Next]_vars

TypeOK ==
    /\ cwd \in WorkDirs
    /\ fs \subseteq FileUniverse
    /\ pc \in Range(Steps) \cup {"done"}
    /\ lib \in {"none", LibraryName}
    /\ exitStatus \in {0, 1, 2, Running}
    /\ report \in {"none", "all_passed", "failed", "error"}

(***************************************************************************)
(* Properties of the script.                                               *)
(***************************************************************************)
Ran(step) == step \in Range(trace)

DesignFiles == glob(cwd, fs, DesignPattern)

TestFiles == glob(cwd, fs, TestPattern)

PatternOf(step) == IF step = "add_design" THEN DesignPattern ELSE TestPattern

IsPrefix(s, t) == Len(s) <= Len(t) /\ s = SubSeq(t, 1, Len(s))

\* C1, as stated: when a pattern matches zero files, the script does not end
\* in an unhandled error: the add_source_files call for that pattern is not
\* the place where an exception ended the process.
C1_EmptyGlobNoCrash ==
    \A step \in {"add_design", "add_test"} :
        (Ran(step) /\ glob(cwd, fs, PatternOf(step)) = {})
            => ~(outcome.step = step /\ outcome.kind = "raise")

\* C1, amended: when the pattern of an executed add_source_files call matches
\* zero files, that call raises, the script does not catch it, the process
\* terminates there with a non-zero status and vu.main() is not reached.
C1_EmptyGlobRaises ==
    \A step \in {"add_design", "add_test"} :
        (Ran(step) /\ glob(cwd, fs, PatternOf(step)) = {})
            => /\ pc = "done"
               /\ outcome = [step |-> step, kind |-> "raise", code |-> 1]
               /\ exitStatus = 1
               /\ ~Ran("main")

C1_Witness ==
    /\ pc = "done"
    /\ outcome.step = "add_test"
    /\ DesignFiles # {}
    /\ TestFiles = {}
    /\ libraries[lib] = DesignFiles

\* C2, as stated: whatever the working directory, the files registered when
\* both patterns have been added are the files matching the two patterns
\* resolved against the directory of the script.
C2_RelativeToScriptDir ==
    pc = "main" =>
        libraries[lib] = glob(ScriptDir, fs, DesignPattern)
                             \cup glob(ScriptDir, fs, TestPattern)

\* C3: when both patterns match files, at the moment vu.main() is invoked
\* the files of library "lib" are exactly the union of the files matched by
\* the design pattern and by the test pattern, and as many.
C3_RegisteredIsUnion ==
    (pc = "main" /\ DesignFiles # {} /\ TestFiles # {})
        => /\ libraries[LibraryName] = DesignFiles \cup TestFiles
           /\ Cardinality(libraries[LibraryName])
                 = Cardinality(DesignFiles \cup TestFiles)
           /\ \A f \in fs : f \in libraries[LibraryName]
                 <=> (f \in DesignFiles \/ f \in TestFiles)

C3_Witness ==
    /\ pc = "main"
    /\ Cardinality(DesignFiles) = 2
    /\ Cardinality(TestFiles) = 2
    /\ \E f \in fs : f.ext # "vhd" /\ f.dir = Resolve(cwd, DesignPattern.dirs)

C5_ExceptionTerminates ==
    outcome.kind = "raise" =>
        /\ pc = "done"
        /\ exitStatus \notin {0, Running}
        /\ trace # <<>>
        /\ trace[Len(trace)] = outcome.step

C5_Witness ==
    /\ outcome.kind = "raise"
    /\ outcome.step = "main"
    /\ pc = "done"

\* C6: the steps run in source order, each at most once; when vu.main() has
\* been invoked, the context was built, the library registered, the design
\* pattern and then the test pattern added, and main is the last step.
C6_StepOrder ==
    /\ IsPrefix(trace, Steps)
    /\ Ran("main") => trace = Steps
    /\ pc = "main" => trace = SubSeq(Steps, 1, 4)

C6_Witness ==
    /\ pc = "done"
    /\ report = "all_passed"
    /\ exitStatus = 0
    /\ trace = Steps

\* C7: the arguments the framework's parser sees are the process arguments
\* after the script name, unchanged, and sys.argv itself is left as it was.
C7_ArgvUnchanged ==
    Ran("from_argv") => vu.argv = Tail(sys_argv)

C7_Witness ==
    /\ vu.created
    /\ vu.argv = <<"--exit-0">>
    /\ pc = "add_library"

C9_NoStepAfterFailure ==
    /\ outcome.kind # "none" =>
          \A i \in 1..Len(Steps) :
              outcome.step = Steps[i] =>
                  \A j \in (i + 1)..Len(Steps) : ~Ran(Steps[j])
    /\ Ran("main") => DesignFiles \cup TestFiles \subseteq libraries[lib]
    /\ (outcome.step = "add_design") => ~Ran("add_test") /\ ~Ran("main")

C9_Witness ==
    /\ outcome.step = "add_design"
    /\ outcome.kind = "raise"
    /\ TestFiles # {}
    /\ pc = "done"
====
